---- MODULE Spec2Model ----
(***************************************************************************)
(* State-machine model of camoufox's realistic_input.py: the typing        *)
(* engine RealisticKeyboard.type_realistically and the field clearing      *)
(* entry point RealisticKeyboard.clear_field.                              *)
(*                                                                         *)
(* A character is a one-character string, a text a sequence of characters. *)
(* Durations are integers in milliseconds (asyncio.sleep(x) with x in      *)
(* seconds is recorded as 1000 * x).  Every await of the source is one     *)
(* step of the model: a call on the keyboard/pointer port appends one      *)
(* event to the shared stream `events`, a sleep records its duration in    *)
(* the task's `sleep` field until the task's next step.                    *)
(***************************************************************************)
EXTENDS Integers, Sequences, FiniteSets, TLC

VARIABLES
    task,      \* task id -> the local state of one call (a coroutine frame)
    events     \* the event stream received by the page's keyboard/pointer port

vars == <<task, events>>

----------------------------------------------------------------------------
(* Bounds of the model *)

\* longest text enumerated over Alphabet
MaxLen == 2
\* most mistake draws (random.random() < 0.03) that succeed in one call
MaxMistakes == 2

\* characters of the enumerated texts: a plain key, a shifted key, the space
Alphabet == {"a", "H", " "}
\* the two scenario texts of the specification, "Hi!" and "ab cd"
ScenarioA == <<"H", "i", "!">>
ScenarioB == <<"a", "b", " ", "c", "d">>
\* values of typing_delay tried: below the 15 ms jitter, and scenario A's
BaseDelays == {10, 100}

----------------------------------------------------------------------------
(* Python's str methods on one character, as tables *)

Lowers == <<"a","b","c","d","e","f","g","h","i","j","k","l","m",
            "n","o","p","q","r","s","t","u","v","w","x","y","z">>
Uppers == <<"A","B","C","D","E","F","G","H","I","J","K","L","M",
            "N","O","P","Q","R","S","T","U","V","W","X","Y","Z">>
Digits == <<"0","1","2","3","4","5","6","7","8","9">>
\* the backquote character, which a TLA+ string literal cannot hold
BQ == "<backquote>"
\* the printable ASCII characters that are neither letters nor digits
Punct == {"!", "@", "#", "$", "%", "^", "&", "*", "(", ")",
          "_", "+", "{", "}", "|", ":", "\"", "<", ">", "?",
          "-", "=", "[", "]", "\\", ";", "'", ",", ".", "/", BQ, "~", " "}
\* representatives outside ASCII: a lowercase and an uppercase letter, a
\* character that str.isdigit() accepts (superscript two), a symbol
NonAscii == {"é", "É", "²", "£"}

Range(s) == {s[i] : i \in DOMAIN s}
IndexOf(s, c) == CHOOSE i \in DOMAIN s : s[i] = c

AllChars == Range(Lowers) \cup Range(Uppers) \cup Range(Digits) \cup Punct \cup NonAscii

\* str.isupper()
isupper(c) == c \in Range(Uppers) \/ c = "É"
\* str.isalpha()
isalpha(c) == c \in Range(Lowers) \/ c \in Range(Uppers) \/ c \in {"é", "É"}
\* str.isdigit()
isdigit(c) == c \in Range(Digits) \/ c = "²"
\* str.lower()
lower(c) == IF c \in Range(Uppers) THEN Lowers[IndexOf(Uppers, c)]
            ELSE IF c = "É" THEN "é" ELSE c
\* str.upper()
upper(c) == IF c \in Range(Lowers) THEN Uppers[IndexOf(Lowers, c)]
            ELSE IF c = "é" THEN "É" ELSE c

\* a variant that drops the empty pieces, as text.split() does, and keeps one
\* empty word when nothing is left
RECURSIVE Collapsing_pieces(_)
Collapsing_pieces(s) ==
    IF s = <<>> THEN <<>>
    ELSE IF Head(s) = " " THEN Collapsing_pieces(Tail(s))
    ELSE LET n == IF \A i \in DOMAIN s : s[i] # " " THEN Len(s) + 1
                  ELSE CHOOSE k \in DOMAIN s :
                          s[k] = " " /\ \A j \in 1..(k - 1) : s[j] # " "
         IN  <<SubSeq(s, 1, n - 1)>> \o Collapsing_pieces(SubSeq(s, n, Len(s)))
Collapsing_split(s) ==
    IF Collapsing_pieces(s) = <<>> THEN << <<>> >> ELSE Collapsing_pieces(s)

\* text.split(' '): the maximal space-free pieces, empty ones included
RECURSIVE split(_)
split(s) ==
    IF \A i \in DOMAIN s : s[i] # " " THEN <<s>>
    ELSE LET i == CHOOSE k \in DOMAIN s :
                      s[k] = " " /\ \A j \in 1..(k - 1) : s[j] # " "
         IN  <<SubSeq(s, 1, i - 1)>> \o split(SubSeq(s, i + 1, Len(s)))

\* random.uniform(lo, hi), in milliseconds: the draws tried are the two ends
uniform(lo, hi) == {lo, hi}
\* random.randint(-15, 15): both ends and the middle
randint(lo, hi) == {lo, 0, hi}

----------------------------------------------------------------------------
(* The awaits of a coroutine body: a port call or a sleep *)

Port(op, key) == [kind |-> "port", op |-> op, key |-> key, lo |-> 0, hi |-> 0]
Sleep(lo, hi) == [kind |-> "sleep", op |-> "sleep", key |-> "", lo |-> lo, hi |-> hi]

----------------------------------------------------------------------------
(* RealisticKeyboard: the pure parts *)

\* the strings tested with `in` by _get_char_difficulty_multiplier
HomeRowChars == {"e","t","a","o","i","n","s","h","r","d","l","u"}
DifficultChars == {"q","z","x","j","k","v"}
ShiftedSymbolChars == {"!","@","#","$","%","^","&","*","(",")",
                       "_","+","{","}","|",":","\"","<",">","?"}
UnshiftedSymbolChars == {"-","=","[","]","\\",";","'",",",".","/"}

\* a variant that tests isupper() before the two letter sets
UpperFirst_multiplier(char) ==
    IF isupper(char) THEN 13
    ELSE IF lower(char) \in HomeRowChars THEN 7
    ELSE IF lower(char) \in DifficultChars THEN 16
    ELSE IF isdigit(char) THEN 12
    ELSE IF char \in ShiftedSymbolChars THEN 18
    ELSE IF char \in UnshiftedSymbolChars THEN 11
    ELSE 10

\* _get_char_difficulty_multiplier, in tenths (0.7 is 7)
_get_char_difficulty_multiplier(char) ==
    IF lower(char) \in HomeRowChars THEN 7
    ELSE IF lower(char) \in DifficultChars THEN 16
    ELSE IF isupper(char) THEN 13
    ELSE IF isdigit(char) THEN 12
    ELSE IF char \in ShiftedSymbolChars THEN 18
    ELSE IF char \in UnshiftedSymbolChars THEN 11
    ELSE 10

\* the keyboard_layout table of _get_adjacent_key
keyboard_layout ==
    [c \in Range(Lowers) |->
        CASE c = "q" -> {"w","a"}             [] c = "w" -> {"q","e","s","r"}
          [] c = "e" -> {"w","r","d","t"}     [] c = "r" -> {"e","t","f","g"}
          [] c = "t" -> {"r","y","g","f"}     [] c = "y" -> {"t","u","h","g"}
          [] c = "u" -> {"y","i","h","j"}     [] c = "i" -> {"u","o","j","k"}
          [] c = "o" -> {"i","p","k","l"}     [] c = "p" -> {"o","l"}
          [] c = "a" -> {"q","s","w"}         [] c = "s" -> {"a","w","e","d","z"}
          [] c = "d" -> {"s","e","r","f","x"} [] c = "f" -> {"d","r","t","g","c"}
          [] c = "g" -> {"f","t","y","h","v"} [] c = "h" -> {"g","y","u","j","b"}
          [] c = "j" -> {"h","u","i","k","n"} [] c = "k" -> {"j","i","o","l","m"}
          [] c = "l" -> {"k","o","p"}         [] c = "z" -> {"s","x"}
          [] c = "x" -> {"z","d","c"}         [] c = "c" -> {"x","f","v"}
          [] c = "v" -> {"c","g","b"}         [] c = "b" -> {"v","h","n"}
          [] c = "n" -> {"b","h","m"}         [] c = "m" -> {"n","j"}]

\* a variant that gives the neighbours in the case of the character
SameCase_get_adjacent_key(char) ==
    IF lower(char) \in DOMAIN keyboard_layout
    THEN IF isupper(char) THEN {upper(c) : c \in keyboard_layout[lower(char)]}
         ELSE keyboard_layout[lower(char)]
    ELSE {"q","w","e","r","t","y"}

\* a variant whose choice includes the key of the character itself
Self_get_adjacent_key(char) ==
    IF lower(char) \in DOMAIN keyboard_layout
    THEN keyboard_layout[lower(char)] \cup {lower(char)}
    ELSE {"q","w","e","r","t","y"}

\* _get_adjacent_key: the characters random.choice(adjacent) can return
_get_adjacent_key(char) ==
    IF lower(char) \in DOMAIN keyboard_layout
    THEN keyboard_layout[lower(char)]
    ELSE {"q","w","e","r","t","y"}

\* shift_map of the '!@#$%^&*()' branch
shift_map_digits(c) ==
    CASE c = "!" -> "Digit1" [] c = "@" -> "Digit2" [] c = "#" -> "Digit3"
      [] c = "$" -> "Digit4" [] c = "%" -> "Digit5" [] c = "^" -> "Digit6"
      [] c = "&" -> "Digit7" [] c = "*" -> "Digit8" [] c = "(" -> "Digit9"
      [] c = ")" -> "Digit0"
\* shift_map of the '_+{}|:"<>?' branch
shift_map_symbols(c) ==
    CASE c = "_" -> "Minus"        [] c = "+" -> "Equal"
      [] c = "{" -> "BracketLeft"  [] c = "}" -> "BracketRight"
      [] c = "|" -> "Backslash"    [] c = ":" -> "Semicolon"
      [] c = "\"" -> "Quote"       [] c = "<" -> "Comma"
      [] c = ">" -> "Period"       [] c = "?" -> "Slash"
\* special_map of the last branch
special_map(c) ==
    CASE c = "-" -> "Minus"        [] c = "=" -> "Equal"
      [] c = "[" -> "BracketLeft"  [] c = "]" -> "BracketRight"
      [] c = "\\" -> "Backslash"   [] c = ";" -> "Semicolon"
      [] c = "'" -> "Quote"        [] c = "," -> "Comma"
      [] c = "." -> "Period"       [] c = "/" -> "Slash"
      [] c = BQ -> "Backquote"     [] c = " " -> "Space"
special_map_keys == {"-","=","[","]","\\",";","'",",",".","/",BQ," "}

\* a variant whose shifted branches press the key without holding Shift
NoShift_press_character_key(char) ==
    IF isupper(char) THEN <<Port("press", "Key" \o upper(char))>>
    ELSE IF char \in {"!","@","#","$","%","^","&","*","(",")"}
    THEN <<Port("press", shift_map_digits(char))>>
    ELSE IF char \in {"_","+","{","}","|",":","\"","<",">","?"}
    THEN <<Port("press", shift_map_symbols(char))>>
    ELSE IF isalpha(char) THEN <<Port("press", "Key" \o upper(char))>>
    ELSE IF isdigit(char) THEN <<Port("press", "Digit" \o char)>>
    ELSE IF char \in special_map_keys THEN <<Port("press", special_map(char))>>
    ELSE <<Port("type", char)>>

\* a variant whose uppercase branch returns without releasing Shift
Latched_press_character_key(char) ==
    IF isupper(char) THEN
        << Port("down", "Shift"), Sleep(20, 60),
           Port("press", "Key" \o upper(char)), Sleep(20, 60) >>
    ELSE IF char \in {"!","@","#","$","%","^","&","*","(",")"} THEN
        << Port("down", "Shift"), Sleep(20, 50),
           Port("press", shift_map_digits(char)), Sleep(20, 50),
           Port("up", "Shift") >>
    ELSE IF char \in {"_","+","{","}","|",":","\"","<",">","?"} THEN
        << Port("down", "Shift"), Sleep(20, 50),
           Port("press", shift_map_symbols(char)), Sleep(20, 50),
           Port("up", "Shift") >>
    ELSE IF isalpha(char) THEN << Port("press", "Key" \o upper(char)) >>
    ELSE IF isdigit(char) THEN << Port("press", "Digit" \o char) >>
    ELSE IF char \in special_map_keys THEN << Port("press", special_map(char)) >>
    ELSE << Port("type", char) >>

\* _press_character_key: the awaits of its body, in order
_press_character_key(char) ==
    IF isupper(char) THEN
        << Port("down", "Shift"), Sleep(20, 60),
           Port("press", "Key" \o upper(char)), Sleep(20, 60),
           Port("up", "Shift") >>
    ELSE IF char \in {"!","@","#","$","%","^","&","*","(",")"} THEN
        << Port("down", "Shift"), Sleep(20, 50),
           Port("press", shift_map_digits(char)), Sleep(20, 50),
           Port("up", "Shift") >>
    ELSE IF char \in {"_","+","{","}","|",":","\"","<",">","?"} THEN
        << Port("down", "Shift"), Sleep(20, 50),
           Port("press", shift_map_symbols(char)), Sleep(20, 50),
           Port("up", "Shift") >>
    ELSE IF isalpha(char) THEN << Port("press", "Key" \o upper(char)) >>
    ELSE IF isdigit(char) THEN << Port("press", "Digit" \o char) >>
    ELSE IF char \in special_map_keys THEN << Port("press", special_map(char)) >>
    ELSE << Port("type", char) >>

\* the downs of _press_key_combo, each followed by its sleep
RECURSIVE combo_downs(_)
combo_downs(keys) ==
    IF keys = <<>> THEN <<>>
    ELSE <<Port("down", Head(keys)), Sleep(10, 30)>> \o combo_downs(Tail(keys))
\* a variant that releases the keys in the listed order
RECURSIVE InOrder_combo_ups(_)
InOrder_combo_ups(keys) ==
    IF keys = <<>> THEN <<>>
    ELSE <<Port("up", Head(keys)), Sleep(10, 30)>> \o InOrder_combo_ups(Tail(keys))

\* the ups of _press_key_combo over reversed(keys), each followed by its sleep
RECURSIVE combo_ups(_)
combo_ups(keys) ==
    IF keys = <<>> THEN <<>>
    ELSE combo_ups(Tail(keys)) \o <<Port("up", Head(keys)), Sleep(10, 30)>>
\* _press_key_combo: the awaits of its body, in order
_press_key_combo(keys) ==
    combo_downs(keys) \o <<Sleep(20, 50)>> \o combo_ups(keys)

\* the selection branch of clear_field for each clear_method
clear_methods == {"ctrl_a", "triple_click", "select_all", "end_shift_home"}
\* a variant whose last branch presses [Control, KeyA] as the first does
SameCombo_clear_selection(clear_method) ==
    IF clear_method = "triple_click" THEN
        << Port("mouse_click", "0,0"), Sleep(50, 100),
           Port("mouse_click", "0,0"), Sleep(50, 100),
           Port("mouse_click", "0,0"), Sleep(50, 100) >>
    ELSE IF clear_method = "end_shift_home" THEN
        <<Port("press", "End"), Sleep(20, 50)>> \o _press_key_combo(<<"Shift", "Home">>)
    ELSE _press_key_combo(<<"Control", "KeyA">>)

clear_selection(clear_method) ==
    IF clear_method = "ctrl_a" THEN _press_key_combo(<<"Control", "KeyA">>)
    ELSE IF clear_method = "triple_click" THEN
        << Port("mouse_click", "0,0"), Sleep(50, 100),
           Port("mouse_click", "0,0"), Sleep(50, 100),
           Port("mouse_click", "0,0"), Sleep(50, 100) >>
    ELSE IF clear_method = "end_shift_home" THEN
        <<Port("press", "End"), Sleep(20, 50)>> \o _press_key_combo(<<"Shift", "Home">>)
    ELSE _press_key_combo(<<"Shift", "Control", "End">>)

----------------------------------------------------------------------------
(* The calls *)

NoSleep == [at |-> "", ms |-> 0]

\* the frame of a call of type_realistically or clear_field before it runs
Frame(op, text, typing_delay, random_delay, human_mistakes, thinking_pauses, selector) ==
    [ op |-> op, pc |-> op,
      text |-> text, typing_delay |-> typing_delay, random_delay |-> random_delay,
      human_mistakes |-> human_mistakes, thinking_pauses |-> thinking_pauses,
      selector |-> selector,
      words |-> <<>>, word_idx |-> 0, char_idx |-> 0,
      char |-> "", wrong |-> FALSE, mistakes |-> 0,
      multiplier |-> 0, delay |-> 0,
      clear_method |-> "", plan |-> <<>>,
      sleep |-> NoSleep, raised |-> <<>> ]

RECURSIVE SeqsUpTo(_, _)
SeqsUpTo(S, n) ==
    IF n = 0 THEN {<<>>}
    ELSE LET shorter == SeqsUpTo(S, n - 1)
         IN  shorter \cup {Append(s, c) : s \in shorter, c \in S}

Texts == SeqsUpTo(Alphabet, MaxLen) \cup {ScenarioA, ScenarioB}

TypeCalls(texts) ==
    { Frame("type_realistically", text, d, rd, hm, tp, FALSE) :
        text \in texts, d \in BaseDelays, rd \in BOOLEAN, hm \in BOOLEAN, tp \in BOOLEAN }
ClearCalls == { Frame("clear_field", <<>>, 0, FALSE, FALSE, FALSE, sel) : sel \in BOOLEAN }

Init ==
    /\ events = <<>>
    /\ task \in { [t \in {1} |-> c] : c \in TypeCalls(Texts) \cup ClearCalls }

\* one call per character of AllChars and configuration, and scenario A
InitChars ==
    /\ events = <<>>
    /\ task \in { [t \in {1} |-> c] : c \in TypeCalls({<<ch>> : ch \in AllChars} \cup {ScenarioA}) }

\* two calls started as tasks on the same page: "H" with the three options
\* false, and "a b" under every configuration
ConcTextA == <<"H">>
ConcTextB == <<"a", " ", "b">>
InitConc ==
    /\ events = <<>>
    /\ task \in { [t \in {1, 2} |-> IF t = 1 THEN a ELSE b] :
                    a \in { Frame("type_realistically", ConcTextA, 10, FALSE, FALSE, FALSE, FALSE) },
                    b \in { c \in TypeCalls({ConcTextB}) : c.typing_delay = 10 } }

Tasks == DOMAIN task

Set(t, r) == task' = [task EXCEPT ![t] = r]
Emit(t, op, key) == events' = Append(events, [task |-> t, op |-> op, key |-> key])
Asleep(r, at, ms) == [r EXCEPT !.sleep = [at |-> at, ms |-> ms]]
Awake(r) == [r EXCEPT !.sleep = NoSleep]

----------------------------------------------------------------------------
(* type_realistically *)

\* the for loop of type_realistically moving on to words[k], k > 1
NextWord(r, k) ==
    IF k > Len(r.words) THEN [r EXCEPT !.pc = "final_touches"]
    ELSE [r EXCEPT !.pc = "word_pause", !.word_idx = k]

\* the call of _type_word_realistic on words[k]: an empty word has no iteration
BeginWord(r, k) ==
    IF r.words[k] = <<>> THEN NextWord(r, k + 1)
    ELSE [r EXCEPT !.pc = "type_word", !.word_idx = k, !.char_idx = 1]

\* line 44, and the first iteration of the loop (word_idx = 0: no pause, no space)
TypeRealistically(t) ==
    /\ task[t].pc = "type_realistically"
    /\ Set(t, BeginWord([task[t] EXCEPT !.words = split(task[t].text)], 1))
    /\ UNCHANGED events

\* a variant that draws the category whatever thinking_pauses is
Always_pause_types(thinking_pauses) == {"short", "medium", "long", "thinking"}

\* the pause categories random.choices can return, and the else branch
pause_types(thinking_pauses) ==
    IF thinking_pauses THEN {"short", "medium", "long", "thinking"} ELSE {"short"}
pause_range(pause_type) ==
    CASE pause_type = "short" -> uniform(50, 150)
      [] pause_type = "medium" -> uniform(200, 500)
      [] pause_type = "long" -> uniform(600, 1200)
      [] pause_type = "thinking" -> uniform(1000, 2500)

\* lines 48-64: the pause between words
WordPause(t) ==
    /\ task[t].pc = "word_pause"
    /\ \E pause_type \in pause_types(task[t].thinking_pauses) :
       \E ms \in pause_range(pause_type) :
          Set(t, [Asleep(task[t], "word_pause", ms) EXCEPT !.pc = "press_space"])
    /\ UNCHANGED events

\* line 67
PressSpace(t) ==
    /\ task[t].pc = "press_space"
    /\ Emit(t, "press", "Space")
    /\ Set(t, [Awake(task[t]) EXCEPT !.pc = "space_wait"])

\* line 68, then the call of _type_word_realistic on the word after the space
SpaceWait(t) ==
    /\ task[t].pc = "space_wait"
    /\ \E ms \in uniform(50, 120) :
          Set(t, BeginWord(Asleep(task[t], "space_wait", ms), task[t].word_idx))
    /\ UNCHANGED events

\* a variant that takes the final delay again and again
Again_FinalTouches(t) ==
    /\ task[t].pc = "final_touches"
    /\ \E ms \in uniform(100, 300) : Set(t, Asleep(task[t], "final_touches", ms))
    /\ UNCHANGED events

\* line 76
FinalTouches(t) ==
    /\ task[t].pc = "final_touches"
    /\ \E ms \in uniform(100, 300) :
          Set(t, [Asleep(task[t], "final_touches", ms) EXCEPT !.pc = "done"])
    /\ UNCHANGED events

----------------------------------------------------------------------------
(* _type_word_realistic *)

\* a variant that injects mistakes whatever random_delay is
NoRandomDelay_mistake(human_mistakes, random_delay, draw) ==
    human_mistakes /\ draw

\* the condition of line 88; draw is random.random() < 0.03
mistake(human_mistakes, random_delay, draw) ==
    human_mistakes /\ random_delay /\ draw

\* lines 86-91 and 101: the next character of the word, a wrong one first when
\* a mistake is drawn
TypeWordChar(t) ==
    LET r == task[t]
        char == r.words[r.word_idx][r.char_idx]
    IN  /\ r.pc = "type_word"
        /\ \E draw \in (IF r.mistakes < MaxMistakes THEN BOOLEAN ELSE {FALSE}) :
              IF mistake(r.human_mistakes, r.random_delay, draw)
              THEN \E wrong_char \in _get_adjacent_key(char) :
                      Set(t, [Awake(r) EXCEPT !.pc = "type_single_char",
                                              !.char = wrong_char, !.wrong = TRUE,
                                              !.mistakes = @ + 1])
              ELSE Set(t, [Awake(r) EXCEPT !.pc = "type_single_char",
                                           !.char = char, !.wrong = FALSE])
        /\ UNCHANGED events

\* line 94
RealizeMistake(t) ==
    /\ task[t].pc = "realize_mistake"
    /\ \E ms \in uniform(100, 500) :
          Set(t, [Asleep(task[t], "realize_mistake", ms) EXCEPT !.pc = "correct_mistake"])
    /\ UNCHANGED events

\* line 97
CorrectMistake(t) ==
    /\ task[t].pc = "correct_mistake"
    /\ Emit(t, "press", "Backspace")
    /\ Set(t, [Awake(task[t]) EXCEPT !.pc = "backspace_wait"])

\* a variant that goes back to the draw of line 88 for the same character
Redraw_BackspaceWait(t) ==
    /\ task[t].pc = "backspace_wait"
    /\ \E ms \in uniform(50, 200) :
          Set(t, [Asleep(task[t], "backspace_wait", ms) EXCEPT
                     !.pc = "type_word", !.wrong = FALSE])
    /\ UNCHANGED events

\* line 98, then line 101: the call of _type_single_char on the intended character
BackspaceWait(t) ==
    LET r == task[t]
    IN  /\ r.pc = "backspace_wait"
        /\ \E ms \in uniform(50, 200) :
              Set(t, [Asleep(r, "backspace_wait", ms) EXCEPT
                         !.pc = "type_single_char",
                         !.char = r.words[r.word_idx][r.char_idx], !.wrong = FALSE])
        /\ UNCHANGED events

\* lines 104-105, then the next iteration of the loop of line 86 or the return
MicroPause(t) ==
    LET r == task[t]
        next(q) == IF r.char_idx < Len(r.words[r.word_idx])
                   THEN [q EXCEPT !.pc = "type_word", !.char_idx = @ + 1]
                   ELSE NextWord(q, r.word_idx + 1)
    IN  /\ r.pc = "micro_pause"
        /\ \E draw \in BOOLEAN :
              IF draw
              THEN \E ms \in uniform(20, 80) : Set(t, next(Asleep(r, "micro_pause", ms)))
              ELSE Set(t, next(Awake(r)))
        /\ UNCHANGED events

----------------------------------------------------------------------------
(* _type_single_char and _press_character_key *)

Max(a, b) == IF a >= b THEN a ELSE b

\* a variant without the floor of line 115
NoFloor_char_delay(base_delay, random_delay, multiplier, u) ==
    IF random_delay THEN (base_delay * multiplier * u) \div 1000 ELSE base_delay

\* a variant with a floor of 10 ms
LowFloor_char_delay(base_delay, random_delay, multiplier, u) ==
    IF random_delay
    THEN Max(10, (base_delay * multiplier * u) \div 1000)
    ELSE base_delay

\* lines 112-117; multiplier in tenths, u = random.uniform(0.7, 1.4) in hundredths
char_delay(base_delay, random_delay, multiplier, u) ==
    IF random_delay
    THEN Max(20, (base_delay * multiplier * u) \div 1000)
    ELSE base_delay

\* lines 112-120: the delay, then the call of _press_character_key
TypeSingleChar(t) ==
    LET r == task[t]
        multiplier == IF r.random_delay THEN _get_char_difficulty_multiplier(r.char) ELSE 0
    IN  /\ r.pc = "type_single_char"
        /\ \E u \in uniform(70, 140) :
              Set(t, [Awake(r) EXCEPT
                         !.pc = "press_character_key",
                         !.multiplier = multiplier,
                         !.delay = char_delay(r.typing_delay, r.random_delay, multiplier, u),
                         !.plan = _press_character_key(r.char)])
        /\ UNCHANGED events

\* the task after the await at the head of its plan; then is the pc after the last
Advance(r, then) ==
    [r EXCEPT !.plan = Tail(@), !.pc = IF Tail(r.plan) = <<>> THEN then ELSE @]

\* a variant with a lock around _press_character_key: no port call while
\* another task is between the first and the last await of its own call
Locked_PressCharacterKeyPort(t) ==
    LET r == task[t]
    IN  /\ r.pc = "press_character_key"
        /\ Head(r.plan).kind = "port"
        /\ \A o \in Tasks \ {t} :
              ~(task[o].pc = "press_character_key"
                  /\ Len(task[o].plan) < Len(_press_character_key(task[o].char)))
        /\ Emit(t, Head(r.plan).op, Head(r.plan).key)
        /\ Set(t, Advance(Awake(r), "char_wait"))

\* a down, press, up or type of _press_character_key
PressCharacterKeyPort(t) ==
    LET r == task[t]
    IN  /\ r.pc = "press_character_key"
        /\ Head(r.plan).kind = "port"
        /\ Emit(t, Head(r.plan).op, Head(r.plan).key)
        /\ Set(t, Advance(Awake(r), "char_wait"))

\* a sleep of _press_character_key
PressCharacterKeySleep(t) ==
    LET r == task[t]
    IN  /\ r.pc = "press_character_key"
        /\ Head(r.plan).kind = "sleep"
        /\ \E ms \in uniform(Head(r.plan).lo, Head(r.plan).hi) :
              Set(t, Advance(Asleep(r, "press_character_key", ms), "char_wait"))
        /\ UNCHANGED events

\* lines 123-124, then the return to line 94 (wrong character) or line 104
CharWait(t) ==
    LET r == task[t]
    IN  /\ r.pc = "char_wait"
        /\ \E jitter \in randint(-15, 15) :
              Set(t, [Asleep(r, "char_wait", r.delay + jitter) EXCEPT
                         !.pc = IF r.wrong THEN "realize_mistake" ELSE "micro_pause"])
        /\ UNCHANGED events

----------------------------------------------------------------------------
(* clear_field and _press_key_combo *)

\* lines 230-231
ClearFieldClick(t) ==
    /\ task[t].pc = "clear_field"
    /\ task[t].selector
    /\ Emit(t, "click", "selector")
    /\ Set(t, [task[t] EXCEPT !.pc = "click_wait"])

\* line 232
ClickWait(t) ==
    /\ task[t].pc = "click_wait"
    /\ \E ms \in uniform(100, 300) :
          Set(t, [Asleep(task[t], "click_wait", ms) EXCEPT !.pc = "choose_method"])
    /\ UNCHANGED events

\* line 235, reached at once when there is no selector
ChooseMethod(t) ==
    LET r == task[t]
    IN  /\ \/ r.pc = "choose_method"
           \/ r.pc = "clear_field" /\ ~r.selector
        /\ \E clear_method \in clear_methods :
              Set(t, [Awake(r) EXCEPT !.pc = "clear_selection",
                                      !.clear_method = clear_method,
                                      !.plan = clear_selection(clear_method)])
        /\ UNCHANGED events

\* a variant in which only the last branch goes on to lines 250-252
OnlyElse_after_selection(clear_method) ==
    IF clear_method = "select_all" THEN "pre_delete_wait" ELSE "done"

\* where each branch of lines 237-248 continues: line 250, outside the if chain
after_selection(clear_method) == "pre_delete_wait"

\* a port call of lines 237-248
ClearSelectionPort(t) ==
    LET r == task[t]
    IN  /\ r.pc = "clear_selection"
        /\ Head(r.plan).kind = "port"
        /\ Emit(t, Head(r.plan).op, Head(r.plan).key)
        /\ Set(t, Advance(Awake(r), after_selection(r.clear_method)))

\* a sleep of lines 237-248
ClearSelectionSleep(t) ==
    LET r == task[t]
    IN  /\ r.pc = "clear_selection"
        /\ Head(r.plan).kind = "sleep"
        /\ \E ms \in uniform(Head(r.plan).lo, Head(r.plan).hi) :
              Set(t, Advance(Asleep(r, "clear_selection", ms),
                           after_selection(r.clear_method)))
        /\ UNCHANGED events

\* line 250
PreDeleteWait(t) ==
    /\ task[t].pc = "pre_delete_wait"
    /\ \E ms \in uniform(100, 200) :
          Set(t, [Asleep(task[t], "pre_delete_wait", ms) EXCEPT !.pc = "press_delete"])
    /\ UNCHANGED events

\* line 251
PressDelete(t) ==
    /\ task[t].pc = "press_delete"
    /\ Emit(t, "press", "Delete")
    /\ Set(t, [Awake(task[t]) EXCEPT !.pc = "post_delete_wait"])

\* line 252, then the return
PostDeleteWait(t) ==
    /\ task[t].pc = "post_delete_wait"
    /\ \E ms \in uniform(50, 150) :
          Set(t, [Asleep(task[t], "post_delete_wait", ms) EXCEPT !.pc = "done"])
    /\ UNCHANGED events

----------------------------------------------------------------------------
(* Cancellation of the calling task *)

\* asyncio raises CancelledError at the await the task is suspended in; no
\* function of the module has a try/finally or an except, so the frames unwind
\* without another port call
Cancel(t) ==
    /\ task[t].pc \notin {"done", "cancelled"}
    /\ Set(t, [task[t] EXCEPT !.pc = "cancelled"])
    /\ UNCHANGED events

----------------------------------------------------------------------------
(* Failure of the keyboard/pointer port *)

\* the port call the task makes at its next step, <<>> when that step is none
NextPortCall(r) ==
    IF r.pc = "press_space" THEN <<Port("press", "Space")>>
    ELSE IF r.pc = "correct_mistake" THEN <<Port("press", "Backspace")>>
    ELSE IF r.pc = "press_delete" THEN <<Port("press", "Delete")>>
    ELSE IF r.pc = "clear_field" /\ r.selector THEN <<Port("click", "selector")>>
    ELSE IF r.pc \in {"press_character_key", "clear_selection"}
            /\ Head(r.plan).kind = "port" THEN <<Head(r.plan)>>
    ELSE <<>>

\* a variant that catches the exception and makes the call again, once
Retry_propagate(r, call) ==
    IF Len(r.raised) < 2 THEN [r EXCEPT !.raised = Append(@, call)]
    ELSE [r EXCEPT !.pc = "failed", !.raised = Append(@, call)]

\* an exception raised by an awaited port call: no function of the module has
\* a try block, so it leaves type_realistically or clear_field at once
propagate(r, call) == [r EXCEPT !.pc = "failed", !.raised = Append(@, call)]

\* the port call of the next step raises instead of delivering its event
PortRaises(t) ==
    /\ NextPortCall(task[t]) # <<>>
    /\ Set(t, propagate(Awake(task[t]), NextPortCall(task[t])[1]))
    /\ UNCHANGED events

----------------------------------------------------------------------------

Typing(t) ==
    \/ TypeRealistically(t) \/ WordPause(t) \/ PressSpace(t) \/ SpaceWait(t)
    \/ FinalTouches(t) \/ TypeWordChar(t) \/ RealizeMistake(t) \/ CorrectMistake(t)
    \/ BackspaceWait(t) \/ MicroPause(t) \/ TypeSingleChar(t)
    \/ PressCharacterKeyPort(t) \/ PressCharacterKeySleep(t) \/ CharWait(t)

Clearing(t) ==
    \/ ClearFieldClick(t) \/ ClickWait(t) \/ ChooseMethod(t)
    \/ ClearSelectionPort(t) \/ ClearSelectionSleep(t)
    \/ PreDeleteWait(t) \/ PressDelete(t) \/ PostDeleteWait(t)

Next == \E t \in Tasks : Typing(t) \/ Clearing(t)

\* the calls run to their return
Spec == Init /\ [][Next]_vars

\* the event loop resumes a task whose port call or sleep has completed: with
\* no exception and no cancellation a call that can take a step takes one
SpecLive == Init /\ [][Next]_vars /\ WF_vars(Next)

NextCancel == \E t \in Tasks : Typing(t) \/ Clearing(t) \/ Cancel(t)

\* the calling task can be cancelled at any await
SpecCancel == Init /\ [][NextCancel]_vars

NextFail == \E t \in Tasks : Typing(t) \/ Clearing(t) \/ PortRaises(t)

\* any call on the port can raise
SpecFail == Init /\ [][NextFail]_vars

NextConc == \E t \in Tasks : Typing(t)

\* two tasks of one event loop: whichever is runnable takes the next step
SpecConc == InitConc /\ [][NextConc]_vars

NextChars == \E t \in Tasks : Typing(t)

\* type_realistically on every one-character text
SpecChars == InitChars /\ [][NextChars]_vars

----------------------------------------------------------------------------
(* Reading the event stream *)

Ev(op, key) == [op |-> op, key |-> key]
\* the stream without the task tags
Stream == [i \in DOMAIN events |-> Ev(events[i].op, events[i].key)]
Count(s, e) == Cardinality({i \in DOMAIN s : s[i] = e})
\* the keys that are down: more Down than Up events
Held == {k \in {events[i].key : i \in DOMAIN events} :
            Count(Stream, Ev("down", k)) > Count(Stream, Ev("up", k))}

\* the stream without each Press(Backspace) and the key event right before it
RECURSIVE Strip(_)
Strip(s) ==
    IF s = <<>> THEN <<>>
    ELSE IF s[Len(s)] = Ev("press", "Backspace") /\ Len(s) >= 2
         THEN Strip(SubSeq(s, 1, Len(s) - 2))
         ELSE Append(Strip(SubSeq(s, 1, Len(s) - 1)), s[Len(s)])

\* the key table of section 4.1 of the specification, US layout: the key, the
\* character it gives, the character it gives with Shift
USLayout ==
    { <<"Digit1", "1", "!">>, <<"Digit2", "2", "@">>, <<"Digit3", "3", "#">>,
      <<"Digit4", "4", "$">>, <<"Digit5", "5", "%">>, <<"Digit6", "6", "^">>,
      <<"Digit7", "7", "&">>, <<"Digit8", "8", "*">>, <<"Digit9", "9", "(">>,
      <<"Digit0", "0", ")">>,
      <<"Minus", "-", "_">>, <<"Equal", "=", "+">>,
      <<"BracketLeft", "[", "{">>, <<"BracketRight", "]", "}">>,
      <<"Backslash", "\\", "|">>, <<"Semicolon", ";", ":">>,
      <<"Quote", "'", "\"">>, <<"Comma", ",", "<">>, <<"Period", ".", ">">>,
      <<"Slash", "/", "?">>, <<"Backquote", BQ, BQ>>, <<"Space", " ", " ">> } \cup
    { <<"Key" \o Uppers[i], Lowers[i], Uppers[i]>> : i \in DOMAIN Lowers }

\* the characters section 4.1 gives a structured mapping
Mapped == {k[2] : k \in USLayout} \cup {k[3] : k \in USLayout}

\* keyMapping of section 4.1, for a character of Mapped
KeyMapping(c) ==
    LET k == CHOOSE k \in USLayout : c \in {k[2], k[3]}
    IN  IF c = k[2] THEN <<Ev("press", k[1])>>
        ELSE <<Ev("down", "Shift"), Ev("press", k[1]), Ev("up", "Shift")>>

\* the key mapping of each character of a text, in text order
RECURSIVE TextMapping(_)
TextMapping(text) ==
    IF text = <<>> THEN <<>> ELSE KeyMapping(Head(text)) \o TextMapping(Tail(text))

IsSuffix(m, s) == Len(m) <= Len(s) /\ SubSeq(s, Len(s) - Len(m) + 1, Len(s)) = m

Typed(t) == task[t].op = "type_realistically"
Cleared(t) == task[t].op = "clear_field"
\* the positions at which the delay of lines 112-117 has just been computed
DelayComputed(t) == task[t].pc \in {"press_character_key", "char_wait"}

----------------------------------------------------------------------------
(* Claims *)

\* C1: with human_mistakes false or random_delay false, no call of
\* type_realistically types a wrong character or presses Backspace, and every
\* event of the stream belongs to the key mapping of a character of the text.
C1_NoMistakeWhenDisabled ==
    \A t \in Tasks :
        (Typed(t) /\ (~task[t].human_mistakes \/ ~task[t].random_delay)) =>
            /\ ~task[t].wrong
            /\ task[t].mistakes = 0
            /\ Count(Stream, Ev("press", "Backspace")) = 0
            /\ \A i \in DOMAIN Stream :
                  \E c \in Range(task[t].text) : Stream[i] \in Range(KeyMapping(c))

\* C1 witness: a call with human_mistakes true and random_delay false has
\* typed a text of two characters and returned.
C1_Witness ==
    \E t \in Tasks :
        /\ Typed(t) /\ task[t].pc = "done"
        /\ task[t].human_mistakes /\ ~task[t].random_delay
        /\ Len(task[t].text) = 2 /\ Len(events) >= 2

\* C2: when type_realistically has returned, the stream without its
\* (wrong key, Backspace) pairs is the key mapping of the characters of the
\* text in text order, Press(Space) for each space.
C2_RoundTrip ==
    \A t \in Tasks :
        (Typed(t) /\ task[t].pc = "done") => Strip(Stream) = TextMapping(task[t].text)

\* C2 witness: a call on "ab cd" that injected a mistake has returned.
C2_Witness ==
    \E t \in Tasks :
        /\ Typed(t) /\ task[t].pc = "done"
        /\ task[t].text = ScenarioB /\ task[t].mistakes = 1
        /\ Count(Stream, Ev("press", "Backspace")) = 1

\* C3: a cancelled call leaves no key down.
C3_ReleasedOnCancel ==
    \A t \in Tasks : task[t].pc = "cancelled" => Held = {}

\* C4: clear_field presses Delete at most once, no event follows that press,
\* and a call that has returned has pressed it.
C4_OneDeleteLast ==
    \A t \in Tasks :
        Cleared(t) =>
            /\ Count(Stream, Ev("press", "Delete")) <= 1
            /\ Count(Stream, Ev("press", "Delete")) = 1 =>
                  Stream[Len(Stream)] = Ev("press", "Delete")
            /\ task[t].pc = "done" => Count(Stream, Ev("press", "Delete")) = 1

\* C4 witness: a call with a selector that drew the triple click has returned.
C4_Witness ==
    \E t \in Tasks :
        /\ Cleared(t) /\ task[t].pc = "done"
        /\ task[t].selector /\ task[t].clear_method = "triple_click"
        /\ Count(Stream, Ev("mouse_click", "0,0")) = 3

ScenarioAEvents ==
    << Ev("down", "Shift"), Ev("press", "KeyH"), Ev("up", "Shift"),
       Ev("press", "KeyI"),
       Ev("down", "Shift"), Ev("press", "Digit1"), Ev("up", "Shift") >>

\* C5: when _press_character_key returns for a character with a structured
\* mapping, the events it emitted are keyMapping(char) of section 4.1 and
\* nothing else; and "Hi!" typed with the three options false gives exactly
\* Down(Shift) Press(KeyH) Up(Shift) Press(KeyI) Down(Shift) Press(Digit1)
\* Up(Shift).
C5_KeyMapping ==
    \A t \in Tasks :
        /\ (task[t].pc = "char_wait" /\ Len(task[t].text) = 1
              /\ task[t].char \in Mapped) =>
              /\ IsSuffix(KeyMapping(task[t].char), Stream)
              /\ Len(Stream) = Len(KeyMapping(task[t].char))
                    + (IF task[t].mistakes = 1 /\ ~task[t].wrong THEN 2 ELSE 0)
        /\ (task[t].pc = "done" /\ task[t].text = ScenarioA
              /\ ~task[t].random_delay /\ ~task[t].human_mistakes
              /\ ~task[t].thinking_pauses) =>
              Stream = ScenarioAEvents

\* C5 witness: "Hi!" typed with the three options false, returned.
C5_Witness ==
    \E t \in Tasks :
        /\ task[t].pc = "done" /\ task[t].text = ScenarioA
        /\ ~task[t].random_delay /\ ~task[t].human_mistakes
        /\ ~task[t].thinking_pauses
        /\ Len(Stream) = 7

\* C6: with random_delay false the wait after a character is typing_delay.
C6_ExactBaseDelay ==
    \A t \in Tasks :
        (task[t].sleep.at = "char_wait" /\ ~task[t].random_delay) =>
            task[t].sleep.ms = task[t].typing_delay

NumSpaces(text) == Cardinality({i \in DOMAIN text : text[i] = " "})
IsLetterPress(e) == e.op = "press" /\ \E i \in DOMAIN Uppers : e.key = "Key" \o Uppers[i]

\* C7: the wrong character is never a space; the stream never holds more
\* Press(Space) than the text has spaces, and holds as many when the call has
\* returned; "ab cd" then gives, without the injected pairs, the four letter
\* presses KeyA KeyB KeyC KeyD.
C7_Spaces ==
    \A t \in Tasks :
        Typed(t) =>
            /\ task[t].wrong => task[t].char # " "
            /\ Count(Stream, Ev("press", "Space")) <= NumSpaces(task[t].text)
            /\ task[t].pc = "done" =>
                  Count(Stream, Ev("press", "Space")) = NumSpaces(task[t].text)
            /\ (task[t].pc = "done" /\ task[t].text = ScenarioB) =>
                  SelectSeq(Strip(Stream), IsLetterPress) =
                     << Ev("press", "KeyA"), Ev("press", "KeyB"),
                        Ev("press", "KeyC"), Ev("press", "KeyD") >>

\* C7 witness: a text of two spaces has been typed with two Press(Space).
C7_Witness ==
    \E t \in Tasks :
        /\ Typed(t) /\ task[t].pc = "done"
        /\ task[t].text = <<" ", " ">>
        /\ Count(Stream, Ev("press", "Space")) = 2

\* C8 as stated: every computed delay is at least 20 ms, random_delay or not.
C8_FloorAlways ==
    \A t \in Tasks : DelayComputed(t) => task[t].delay >= 20

\* C8 amended: with random_delay the computed delay is at least 20 ms;
\* without it the delay is typing_delay, whatever its value.
C8_FloorWhenRandom ==
    \A t \in Tasks :
        DelayComputed(t) =>
            IF task[t].random_delay THEN task[t].delay >= 20
            ELSE task[t].delay = task[t].typing_delay

\* C8 witness: typing_delay 10 with random_delay, the delay raised to the floor.
C8_Witness ==
    \E t \in Tasks :
        /\ DelayComputed(t) /\ task[t].random_delay
        /\ task[t].typing_delay = 10 /\ task[t].delay = 20

\* C9 as stated: the lowest jitter on a delay at the 20 ms floor gives a wait
\* below zero.
C9_FlooredGoesNegative ==
    \A t \in Tasks :
        (task[t].sleep.at = "char_wait" /\ task[t].random_delay
            /\ task[t].delay = 20 /\ task[t].sleep.ms = task[t].delay - 15) =>
            task[t].sleep.ms < 0

\* C9 amended: the wait after a character is the delay plus a jitter within
\* 15 ms, not clamped; with random_delay (the floor) it is at least 5 ms; it is
\* negative only without random_delay and with typing_delay below 15.
C9_NegativeOnlyUnfloored ==
    \A t \in Tasks :
        task[t].sleep.at = "char_wait" =>
            /\ task[t].sleep.ms - task[t].delay \in -15..15
            /\ task[t].random_delay => task[t].sleep.ms >= 5
            /\ task[t].sleep.ms < 0 =>
                  ~task[t].random_delay /\ task[t].typing_delay < 15

\* C9 witness: a sleep after a character with a negative duration.
C9_Witness ==
    \E t \in Tasks : task[t].sleep.at = "char_wait" /\ task[t].sleep.ms < 0

\* the classes in priority order and their multipliers, in tenths
\* HomeRow, Difficult, Upper, Digit, ShiftedSymbol, UnshiftedSymbol, Other
ClassMultiplier == <<7, 16, 13, 12, 18, 11, 10>>
InClass(k, c) ==
    CASE k = 1 -> lower(c) \in HomeRowChars
      [] k = 2 -> lower(c) \in DifficultChars
      [] k = 3 -> isupper(c)
      [] k = 4 -> isdigit(c)
      [] k = 5 -> c \in ShiftedSymbolChars
      [] k = 6 -> c \in UnshiftedSymbolChars
      [] k = 7 -> TRUE
FirstClass(c) ==
    CHOOSE k \in 1..7 : InClass(k, c) /\ \A j \in 1..(k - 1) : ~InClass(j, c)

\* C10: the multiplier computed for a character is that of the first class,
\* in the order HomeRow, Difficult, Upper, Digit, ShiftedSymbol,
\* UnshiftedSymbol, Other, that the character belongs to, whatever was drawn
\* or typed before; an uppercase home-row letter gets 0.7, not 1.3.
C10_ClassifyPriority ==
    \A t \in Tasks :
        (DelayComputed(t) /\ task[t].random_delay) =>
            /\ task[t].multiplier = ClassMultiplier[FirstClass(task[t].char)]
            /\ (isupper(task[t].char) /\ lower(task[t].char) \in HomeRowChars) =>
                  task[t].multiplier = 7
            /\ (isupper(task[t].char) /\ lower(task[t].char) \in DifficultChars) =>
                  task[t].multiplier = 16

\* C10 witness: the multiplier of "H", uppercase and home row, is 0.7.
C10_Witness ==
    \E t \in Tasks :
        /\ DelayComputed(t) /\ task[t].random_delay
        /\ task[t].char = "H" /\ task[t].multiplier = 7

\* the task has left its call: by return, by an exception of the port, or
\* by cancellation
Left(t) == task[t].pc \in {"done", "failed", "cancelled"}

\* C11: a port call that raises is made once and not again; the call that
\* made it ends there with the exception, at which point the stream holds the
\* events emitted before it and never gets another one; a call that ended
\* without an exception saw no port call raise.
C11_FailurePropagates ==
    /\ [](\A t \in Tasks :
            /\ Len(task[t].raised) <= 1
            /\ task[t].pc = "failed" <=> Len(task[t].raised) = 1)
    /\ [][\A t \in Tasks :
            task[t].pc = "failed" => (task'[t] = task[t] /\ events' = events)]_vars

\* C11 witness: Press(KeyH) raised while Shift was down; the stream holds
\* Down(Shift) alone and the call has ended with the exception.
C11_Witness ==
    \E t \in Tasks :
        /\ task[t].pc = "failed"
        /\ task[t].raised = <<Port("press", "KeyH")>>
        /\ Stream = <<Ev("down", "Shift")>>

\* C12: with thinking_pauses false the pause before Press(Space) is between
\* 50 and 150 ms.
C12_ShortPauseOnly ==
    \A t \in Tasks :
        (task[t].sleep.at = "word_pause" /\ ~task[t].thinking_pauses) =>
            task[t].sleep.ms \in 50..150

\* C12 witness: a pause of 150 ms at a word boundary, thinking_pauses false.
C12_Witness ==
    \E t \in Tasks :
        /\ task[t].sleep.at = "word_pause" /\ ~task[t].thinking_pauses
        /\ task[t].sleep.ms = 150 /\ task[t].pc = "press_space"

IsPrefix(m, s) == Len(m) <= Len(s) /\ SubSeq(s, 1, Len(m)) = m
Drop(s, n) == SubSeq(s, n + 1, Len(s))

\* s is, for each character of text in order, its key mapping, preceded for
\* a character other than a space by at most one (letter press, Backspace)
RECURSIVE Protocol(_, _)
Protocol(s, text) ==
    IF text = <<>> THEN s = <<>>
    ELSE LET m == KeyMapping(Head(text))
         IN  \/ IsPrefix(m, s) /\ Protocol(Drop(s, Len(m)), Tail(text))
             \/ /\ Head(text) # " "
                /\ Len(s) >= 2 /\ IsLetterPress(s[1]) /\ s[2] = Ev("press", "Backspace")
                /\ IsPrefix(m, Drop(s, 2))
                /\ Protocol(Drop(s, 2 + Len(m)), Tail(text))

\* C13: Backspace is pressed after the reaction wait and right after the
\* press of the wrong key; every Press(Backspace) of the stream has a letter
\* press right before it; when the call has returned, the stream is the key
\* mapping of each character, each preceded by at most one (wrong key,
\* Backspace) pair.
C13_InjectorProtocol ==
    \A t \in Tasks :
        Typed(t) =>
            /\ task[t].pc = "correct_mistake" =>
                  /\ task[t].sleep.at = "realize_mistake"
                  /\ task[t].wrong
                  /\ Len(Stream) >= 1
                  /\ Stream[Len(Stream)] = Ev("press", "Key" \o upper(task[t].char))
            /\ \A i \in DOMAIN Stream :
                  Stream[i] = Ev("press", "Backspace") =>
                      i >= 2 /\ IsLetterPress(Stream[i - 1])
            /\ task[t].pc = "done" => Protocol(Stream, task[t].text)

\* C13 witness: a text of two characters typed with a mistake on each.
C13_Witness ==
    \E t \in Tasks :
        /\ Typed(t) /\ task[t].pc = "done"
        /\ Len(task[t].text) = 2 /\ task[t].mistakes = 2
        /\ Count(Stream, Ev("press", "Backspace")) = 2

\* the keys of the press-combo of each clear_method, none for the triple click
ComboKeys(clear_method) ==
    CASE clear_method = "ctrl_a" -> <<"Control", "KeyA">>
      [] clear_method = "end_shift_home" -> <<"Shift", "Home">>
      [] clear_method = "select_all" -> <<"Shift", "Control", "End">>
      [] OTHER -> <<>>
\* Down(k1) .. Down(kn) then Up(kn) .. Up(k1)
Chord(keys) ==
    LET n == Len(keys)
    IN  [i \in 1..(2 * n) |->
            IF i <= n THEN Ev("down", keys[i]) ELSE Ev("up", keys[2 * n + 1 - i])]
IsDownUp(e) == e.op \in {"down", "up"}

\* C14: the Down and Up events of a clear_field call are, so far, the
\* beginning of Down(k1) .. Down(kn) Up(kn) .. Up(k1) for the keys of its
\* combo, with no other event between two of them, and are all of it when
\* the call has returned.
C14_ComboOrder ==
    \A t \in Tasks :
        Cleared(t) =>
            /\ IsPrefix(SelectSeq(Stream, IsDownUp), Chord(ComboKeys(task[t].clear_method)))
            /\ \A i, j, k \in DOMAIN Stream :
                  (i < j /\ j < k /\ IsDownUp(Stream[i]) /\ IsDownUp(Stream[k])) =>
                      IsDownUp(Stream[j])
            /\ task[t].pc = "done" =>
                  SelectSeq(Stream, IsDownUp) = Chord(ComboKeys(task[t].clear_method))

\* C14 witness: the combo [Shift, Control, End] has been pressed and released.
C14_Witness ==
    \E t \in Tasks :
        /\ Cleared(t) /\ task[t].pc = "done"
        /\ task[t].clear_method = "select_all"
        /\ SelectSeq(Stream, IsDownUp) =
              << Ev("down", "Shift"), Ev("down", "Control"), Ev("down", "End"),
                 Ev("up", "End"), Ev("up", "Control"), Ev("up", "Shift") >>

\* the key names of the fixed key tables, and Backspace of the correction
TableKeys == {k[1] : k \in USLayout} \cup {"Backspace"}

\* C15: when _press_character_key returns for a character without a
\* structured mapping, the only event is TypeRaw(char); and no Press carries a
\* key name outside the key tables.
C15_UnmappedTypeRaw ==
    /\ \A t \in Tasks :
          (task[t].pc = "char_wait" /\ ~task[t].wrong /\ Len(task[t].text) = 1
              /\ task[t].mistakes = 0 /\ task[t].char \notin Mapped) =>
              Stream = <<Ev("type", task[t].char)>>
    /\ \A i \in DOMAIN Stream :
          Stream[i].op = "press" => Stream[i].key \in TableKeys

\* the events of task t, without the task tags
Own(t) == SelectSeq(events, LAMBDA e : e.task = t)

\* C16: nothing in the engine makes one call wait for another: whatever the
\* other task is doing, a call that has not returned can take its next step,
\* and the events of each call taken alone are those of its text.
C16_NotSerialized ==
    \A t \in Tasks :
        /\ task[t].pc # "done" => ENABLED Typing(t)
        /\ (task[t].pc = "done" /\ task[t].mistakes = 0) =>
              [i \in DOMAIN Own(t) |-> Ev(Own(t)[i].op, Own(t)[i].key)]
                  = TextMapping(task[t].text)

\* C16 witness: both calls have returned, a key of the second call was pressed
\* between Down(Shift) and Up(Shift) of the first, and the merged stream is
\* not the stream of either text followed by the other.
C16_Witness ==
    /\ Tasks = {1, 2}
    /\ \A t \in Tasks : task[t].pc = "done" /\ task[t].mistakes = 0
    /\ \E i, j, k \in DOMAIN events :
          /\ i < j /\ j < k
          /\ events[i] = [task |-> 1, op |-> "down", key |-> "Shift"]
          /\ events[j].task = 2 /\ events[j].op = "press"
          /\ events[k] = [task |-> 1, op |-> "up", key |-> "Shift"]
    /\ Stream # TextMapping(task[1].text) \o TextMapping(task[2].text)
    /\ Stream # TextMapping(task[2].text) \o TextMapping(task[1].text)

\* C17: with no port failure and no cancellation type_realistically returns;
\* when it has returned the stream without the corrected mistakes is the key
\* mapping of the whole text and the last sleep taken is the final delay of
\* 100..300 ms; no event is emitted after the return.
C17_Returns ==
    /\ <>(\A t \in Tasks : Typed(t) => task[t].pc = "done")
    /\ [](\A t \in Tasks :
            (Typed(t) /\ task[t].pc = "done") =>
                /\ task[t].sleep.at = "final_touches"
                /\ task[t].sleep.ms \in 100..300
                /\ Strip(Stream) = TextMapping(task[t].text))
    /\ [][\A t \in Tasks :
            (Typed(t) /\ task[t].pc \in {"final_touches", "done"}) => events' = events]_vars

\* C17 witness: "ab cd" has been typed and the call has returned after a final
\* delay of 300 ms.
C17_Witness ==
    \E t \in Tasks :
        /\ Typed(t) /\ task[t].pc = "done" /\ task[t].text = ScenarioB
        /\ task[t].sleep = [at |-> "final_touches", ms |-> 300]
        /\ Count(Stream, Ev("press", "Space")) = 1

\* the selection events of the four strategies of the specification
Strategies == {"ctrl_a", "triple_click", "end_shift_home", "select_all"}
Selection(clear_method) ==
    CASE clear_method = "ctrl_a" -> Chord(<<"Control", "KeyA">>)
      [] clear_method = "triple_click" ->
            << Ev("mouse_click", "0,0"), Ev("mouse_click", "0,0"), Ev("mouse_click", "0,0") >>
      [] clear_method = "end_shift_home" -> <<Ev("press", "End")>> \o Chord(<<"Shift", "Home">>)
      [] clear_method = "select_all" -> Chord(<<"Shift", "Control", "End">>)
      [] OTHER -> <<>>
\* the stream after the click on the selector, when there is one
AfterClick ==
    IF Stream # <<>> /\ Stream[1] = Ev("click", "selector") THEN Tail(Stream) ELSE Stream

\* C18: a clear_field call draws one of the four strategies, each of them can
\* be drawn, their selection events differ pairwise, and the events of the
\* call after the click are those of the drawn strategy, all of them before
\* Delete. With a selector the click is the first event and the only click;
\* without one there is none.
C18_FourStrategies ==
    /\ \A m, n \in Strategies : m # n => Selection(m) # Selection(n)
    /\ \A t \in Tasks :
          Cleared(t) =>
              /\ task[t].clear_method \in Strategies \cup {""}
              /\ (task[t].pc = "choose_method" \/ (task[t].pc = "clear_field" /\ ~task[t].selector)) =>
                    \A m \in Strategies :
                        ENABLED (ChooseMethod(t) /\ task'[t].clear_method = m)
              /\ task[t].clear_method = "" => AfterClick = <<>>
              /\ task[t].clear_method # "" =>
                    IsPrefix(AfterClick, Append(Selection(task[t].clear_method), Ev("press", "Delete")))
              /\ task[t].pc \in {"pre_delete_wait", "press_delete"} =>
                    AfterClick = Selection(task[t].clear_method)
              /\ Count(Stream, Ev("click", "selector")) =
                    (IF task[t].selector /\ task[t].pc # "clear_field" THEN 1 ELSE 0)
              /\ Count(Stream, Ev("click", "selector")) = 1 =>
                    Stream[1] = Ev("click", "selector")

\* C18 witness: a call with a selector that drew 'end_shift_home' has returned.
C18_Witness ==
    \E t \in Tasks :
        /\ Cleared(t) /\ task[t].pc = "done" /\ task[t].selector
        /\ Stream = << Ev("click", "selector"), Ev("press", "End"),
                       Ev("down", "Shift"), Ev("down", "Home"),
                       Ev("up", "Home"), Ev("up", "Shift"), Ev("press", "Delete") >>

\* key k is down when event i of the stream is emitted
HeldAt(i, k) ==
    Count(SubSeq(Stream, 1, i - 1), Ev("down", k)) > Count(SubSeq(Stream, 1, i - 1), Ev("up", k))
StreamKeys == {Stream[i].key : i \in DOMAIN Stream}

\* C19: without port failure or cancellation a key has at most one Down
\* without its Up; in type_realistically each Down(Shift) is followed by one
\* Press, of a key other than Backspace and Space, and then by Up(Shift), and
\* each Up(Shift) ends such a triple; Backspace, Space and a wrong key are
\* never pressed while Shift is down; a call that has returned holds no key.
C19_ModifierBalance ==
    /\ \A k \in StreamKeys :
          Count(Stream, Ev("down", k)) - Count(Stream, Ev("up", k)) \in {0, 1}
    /\ \A t \in Tasks :
          /\ task[t].pc = "done" => Held = {}
          /\ Typed(t) =>
                /\ \A i \in DOMAIN Stream :
                      /\ Stream[i] = Ev("down", "Shift") =>
                            /\ i + 1 <= Len(Stream) =>
                                  /\ Stream[i + 1].op = "press"
                                  /\ Stream[i + 1].key \notin {"Backspace", "Space"}
                            /\ i + 2 <= Len(Stream) => Stream[i + 2] = Ev("up", "Shift")
                      /\ Stream[i] = Ev("up", "Shift") =>
                            i >= 3 /\ Stream[i - 2] = Ev("down", "Shift")
                      /\ Stream[i].key \in {"Backspace", "Space"} => ~HeldAt(i, "Shift")
                      /\ (Stream[i] = Ev("press", "Backspace") /\ i >= 2) =>
                            ~HeldAt(i - 1, "Shift")
                /\ (task[t].wrong /\ task[t].pc = "char_wait") =>
                      /\ Stream[Len(Stream)].op = "press"
                      /\ ~HeldAt(Len(Stream), "Shift")
                      /\ "Shift" \notin Held

\* C19 witness: "H" has been typed after a corrected wrong key, and the call
\* has returned with Shift released.
C19_Witness ==
    \E t \in Tasks :
        /\ Typed(t) /\ task[t].pc = "done" /\ task[t].text = <<"H">>
        /\ task[t].mistakes = 1 /\ Len(Stream) = 5
        /\ SubSeq(Stream, 2, 5) = << Ev("press", "Backspace"), Ev("down", "Shift"),
                                     Ev("press", "KeyH"), Ev("up", "Shift") >>
        /\ Held = {}

\* the physical key of a character with a structured mapping, the character
\* itself otherwise
PhysicalKey(c) ==
    IF c \in Mapped THEN (CHOOSE k \in USLayout : c \in {k[2], k[3]})[1] ELSE c
AsciiLetters == Range(Lowers) \cup Range(Uppers)

\* C20: when the wrong key of a mistake has been pressed, it is the only event
\* so far and is Press(Key<L>) of a lowercase ASCII letter, without Shift and
\* not a raw type; its key is not the physical key of the intended character;
\* for an intended ASCII letter of either case it belongs to the adjacency
\* entry of that letter, which does not contain the letter; for every other
\* character, which has no entry, it is one of q w e r t y.
C20_WrongKeyChoice ==
    /\ \A c \in DOMAIN keyboard_layout :
          c \notin keyboard_layout[c] /\ keyboard_layout[c] \subseteq Range(Lowers)
    /\ \A t \in Tasks :
          (task[t].wrong /\ task[t].pc = "char_wait" /\ Len(task[t].text) = 1) =>
              LET intended == task[t].text[1]
                  wrong_char == task[t].char
              IN  /\ wrong_char \in Range(Lowers)
                  /\ Stream = <<Ev("press", "Key" \o upper(wrong_char))>>
                  /\ "Key" \o upper(wrong_char) # PhysicalKey(intended)
                  /\ intended \in AsciiLetters =>
                        /\ wrong_char \in keyboard_layout[lower(intended)]
                        /\ wrong_char # lower(intended)
                  /\ intended \notin AsciiLetters =>
                        wrong_char \in {"q", "w", "e", "r", "t", "y"}

\* C20 witness: the wrong key pressed for the intended "H" is g, one of the
\* neighbours of h, pressed without Shift.
C20_Witness ==
    \E t \in Tasks :
        /\ task[t].text = <<"H">> /\ task[t].wrong /\ task[t].pc = "char_wait"
        /\ task[t].char = "g"
        /\ Stream = <<Ev("press", "KeyG")>>

====
